---- MODULE Spec2Model ----
(***************************************************************************)
(* Provider abstraction, manager and summarize dispatch of the dual        *)
(* Groq (cloud) / Ollama (local) summarization platform.                   *)
(*                                                                         *)
(* Python values are represented as follows:                               *)
(*   Optional[T]   None is <<>>, a present value v is <<v>>                *)
(*   dict          a record; a key the dict lacks reads as None (.get)     *)
(*   float seconds whole time units; a quotient of two of them is kept     *)
(*                 exact as a record [num, den]                            *)
(***************************************************************************)
EXTENDS Integers, Sequences, FiniteSets, TLC

VARIABLES
    env_api_key,      \* os.getenv("GROQ_API_KEY"): fixed for the process
    groq_importable,  \* whether "from groq import Groq" succeeds
    groq_api_key,     \* DualLLMManager.groq_api_key of the global llm_manager
    ollama,           \* what the local service answers on /api/tags right now
    pc,               \* position of the /api/summarize handler
    request,          \* its SummarizationRequest
    results,          \* its results list
    provider,         \* the provider instance of the label being processed
    cur,              \* what has happened for the label being processed
    log,              \* what happened for every label already processed
    guard_probes,     \* /api/tags requests made by the handler's first check
    response,         \* what the handler returned last
    call              \* one call of a function on its own: arguments, result

vars == <<env_api_key, groq_importable, groq_api_key, ollama, pc, request,
          results, provider, cur, log, guard_probes, response, call>>

-----------------------------------------------------------------------------
(* Bounds and input sets *)

MaxLabels == 2

None == <<>>
Some(v) == <<v>>

\* An eval_count the backend reports that is not an integer.
NotAnInt == <<0, 0>>

\* Python truthiness of an Optional[str].
Truthy(opt) == opt # None /\ opt[1] # ""

UnknownLabel == "Nonexistent - Model"

\* The labels a request may carry: Cloud, Local and one of neither catalog.
RequestLabels == {"Groq - Llama 3.1 70B", "Ollama - Llama 3.1 8B", UnknownLabel}

RequestTexts == {"", "  ", "some text"}

\* str.strip() on the request texts.
strip(text) == IF text \in {"", "  "} THEN "" ELSE text

\* Credentials a caller may send to /api/configure-key.
ConfigureInputs == {"use_env_key", "", "k1"}

EnvValues == {None, Some("kenv")}

\* Model ids the local service may have installed.
InstallableModels == {"llama3.1:8b"}

OllamaStates ==
    {[status |-> "ok", models |-> m] : m \in SUBSET InstallableModels}
    \cup {[status |-> "http_error", models |-> {}],
          [status |-> "down", models |-> {}]}

\* What the Cloud backend may do with chat.completions.create: answer, or
\* raise an exception e for a fault of some kind, message being str(e).
GroqReplies ==
    {[kind |-> "ok", elapsed |-> 1, tokens |-> None],
     [kind |-> "ok", elapsed |-> 2, tokens |-> Some(3)],
     [kind |-> "timeout", elapsed |-> 2, tokens |-> None,
      message |-> "Request timed out."],
     [kind |-> "status", elapsed |-> 1, tokens |-> None,
      message |-> "Error code: 500"],
     [kind |-> "transport", elapsed |-> 1, tokens |-> None,
      message |-> "Connection error."]}

\* What the Local backend may do with POST /api/generate.
OllamaReplies ==
    {[kind |-> "ok", elapsed |-> 1, tokens |-> None],
     [kind |-> "ok", elapsed |-> 2, tokens |-> Some(3)],
     [kind |-> "ok", elapsed |-> 1, tokens |-> NotAnInt],
     [kind |-> "timeout", elapsed |-> 2, tokens |-> None],
     [kind |-> "status", elapsed |-> 1, tokens |-> None],
     [kind |-> "transport", elapsed |-> 1, tokens |-> None]}

-----------------------------------------------------------------------------
(* Catalogs: label -> backend model id, in definition order *)

groq_models == <<
    <<"Groq - Llama 3.1 70B", "llama-3.1-70b-versatile">>,
    <<"Groq - Llama 3.1 8B", "llama-3.1-8b-instant">>,
    <<"Groq - Llama 3 70B", "llama3-70b-8192">>,
    <<"Groq - Llama 3 8B", "llama3-8b-8192">>,
    <<"Groq - Mixtral 8x7B", "mixtral-8x7b-32768">>,
    <<"Groq - Gemma 7B", "gemma-7b-it">>,
    <<"Groq - Gemma 2 9B", "gemma2-9b-it">> >>

ollama_models == <<
    <<"Ollama - Llama 3.1 8B", "llama3.1:8b">>,
    <<"Ollama - Llama 3.1 70B", "llama3.1:70b">>,
    <<"Ollama - Llama 3 8B", "llama3:8b">>,
    <<"Ollama - Mistral 7B", "mistral:7b">>,
    <<"Ollama - Gemma 7B", "gemma:7b">>,
    <<"Ollama - Gemma 2 9B", "gemma2:9b">>,
    <<"Ollama - Phi-3 Mini", "phi3:mini">>,
    <<"Ollama - CodeLlama 7B", "codellama:7b">>,
    <<"Ollama - Neural Chat 7B", "neural-chat:7b">> >>

\* dict.keys(), "in" and [] on a catalog.
keys(catalog) == [i \in 1..Len(catalog) |-> catalog[i][1]]
has_key(catalog, label) == \E i \in 1..Len(catalog) : catalog[i][1] = label
lookup(catalog, label) ==
    catalog[CHOOSE i \in 1..Len(catalog) : catalog[i][1] = label][2]

RECURSIVE select_installed(_, _)
\* The display names of the catalog entries whose model id is installed.
select_installed(catalog, installed) ==
    IF catalog = <<>> THEN <<>>
    ELSE (IF Head(catalog)[2] \in installed THEN <<Head(catalog)[1]>> ELSE <<>>)
         \o select_installed(Tail(catalog), installed)

-----------------------------------------------------------------------------
(* GroqProvider *)

GroqProvider_init(model_name, api_key, env, importable) ==
    LET key == IF Truthy(api_key) THEN api_key ELSE env
    IN [kind |-> "groq", model_name |-> model_name, api_key |-> key,
        client |-> Truthy(key) /\ importable]

\* Mutant: availability re-read from the manager's credential of the moment.
Groq_is_available_recheck(p) == Truthy(groq_api_key) /\ groq_importable

Groq_is_available(p) == p.client /\ p.api_key # None

\* Mutant: the unavailable handle reports a count of 0 next to its time of 0.
Groq_unavailable_result_zero_tokens(p) ==
    [summary |-> "Groq API key not configured", success |-> FALSE,
     response_time |-> 0, token_count |-> Some(0), model |-> p.model_name,
     provider |-> "Groq (Cloud)", error |-> Some("API key not provided")]

Groq_unavailable_result(p) ==
    [summary |-> "Groq API key not configured", success |-> FALSE,
     response_time |-> 0, token_count |-> None, model |-> p.model_name,
     provider |-> "Groq (Cloud)", error |-> Some("API key not provided")]

\* str(e) of what chat.completions.create raised: the text the client
\* library gave the exception, whatever the fault was.
groq_exception_str(reply) == reply.message

\* The try/except of GroqProvider.generate_summary, given what the backend did.
Groq_request_result(p, reply) ==
    IF reply.kind = "ok"
    THEN [summary |-> "summary text", success |-> TRUE,
          response_time |-> reply.elapsed, token_count |-> reply.tokens,
          model |-> p.model_name, provider |-> "Groq (Cloud)", error |-> None]
    ELSE [summary |-> "Error generating summary: " \o groq_exception_str(reply),
          success |-> FALSE, response_time |-> reply.elapsed,
          token_count |-> None, model |-> p.model_name,
          provider |-> "Groq (Cloud)",
          error |-> Some(groq_exception_str(reply))]

-----------------------------------------------------------------------------
(* OllamaProvider *)

OllamaProvider_init(model_name, base_url) ==
    [kind |-> "ollama", model_name |-> model_name, base_url |-> base_url]

\* Mutant: the names are read off the body whatever the status code.
Ollama_is_available_any_status(p, svc) ==
    IF svc.status \in {"ok", "http_error"} THEN p.model_name \in svc.models
    ELSE FALSE

\* Mutant: only the service's liveness is checked, not the model list.
Ollama_is_available_server_only(p, svc) == svc.status = "ok"

\* GET /api/tags answered by service state svc.
Ollama_is_available(p, svc) ==
    IF svc.status = "ok" THEN p.model_name \in svc.models ELSE FALSE

Ollama_unavailable_result(p) ==
    [summary |-> "Ollama model not available", success |-> FALSE,
     response_time |-> 0, token_count |-> None, model |-> p.model_name,
     provider |-> "Ollama (Local)",
     error |-> Some("Model " \o p.model_name \o " not available")]

\* The try/except of OllamaProvider.generate_summary, given what the backend did.
Ollama_request_result(p, reply) ==
    CASE reply.kind = "ok" ->
            [summary |-> "summary text", success |-> TRUE,
             response_time |-> reply.elapsed, token_count |-> reply.tokens,
             model |-> p.model_name, provider |-> "Ollama (Local)",
             error |-> None]
      [] reply.kind = "status" ->
            [summary |-> "Ollama API error: 500", success |-> FALSE,
             response_time |-> reply.elapsed, token_count |-> None,
             model |-> p.model_name, provider |-> "Ollama (Local)",
             error |-> Some("API error: 500")]
      [] reply.kind = "timeout" ->
            [summary |-> "Request timed out.", success |-> FALSE,
             response_time |-> reply.elapsed, token_count |-> None,
             model |-> p.model_name, provider |-> "Ollama (Local)",
             error |-> Some("Request timeout")]
      [] OTHER ->
            [summary |-> "Error generating summary: Connection refused",
             success |-> FALSE, response_time |-> reply.elapsed,
             token_count |-> None, model |-> p.model_name,
             provider |-> "Ollama (Local)",
             error |-> Some("Connection refused")]

-----------------------------------------------------------------------------
(* DualLLMManager *)

\* Mutant: the Cloud catalog is listed only while a credential is set.
get_available_providers_by_credential ==
    (IF Truthy(groq_api_key) THEN keys(groq_models) ELSE <<>>)
    \o keys(ollama_models)

get_available_providers == keys(groq_models) \o keys(ollama_models)

\* One GET /api/tags answered by service state svc; any failure lists nothing.
_get_available_ollama_models(svc) ==
    IF svc.status = "ok"
    THEN select_installed(ollama_models, svc.models)
    ELSE <<>>

\* Mutant: an empty credential counts as configured.
get_enabled_providers_key_not_none(api_key, svc) ==
    (IF api_key # None THEN keys(groq_models) ELSE <<>>)
    \o _get_available_ollama_models(svc)

get_enabled_providers(api_key, svc) ==
    (IF Truthy(api_key) THEN keys(groq_models) ELSE <<>>)
    \o _get_available_ollama_models(svc)

\* Mutant: a label the Cloud catalog lacks is taken for a Local one.
get_provider_instance_fallback(provider_name, api_key, env, importable) ==
    IF has_key(groq_models, provider_name)
    THEN Some(GroqProvider_init(lookup(groq_models, provider_name), api_key,
                                env, importable))
    ELSE Some(OllamaProvider_init(provider_name, "http://localhost:11434"))

\* None for a label of neither catalog, else the instance bound to the
\* manager's configuration of this moment.
get_provider_instance(provider_name, api_key, env, importable) ==
    IF has_key(groq_models, provider_name)
    THEN Some(GroqProvider_init(lookup(groq_models, provider_name), api_key,
                                env, importable))
    ELSE IF has_key(ollama_models, provider_name)
    THEN Some(OllamaProvider_init(lookup(ollama_models, provider_name),
                                  "http://localhost:11434"))
    ELSE None

not_found_result(provider_name) ==
    [summary |-> "Provider '" \o provider_name \o "' not found",
     success |-> FALSE, response_time |-> 0, token_count |-> None,
     model |-> "Unknown", provider |-> "Unknown",
     error |-> Some("Provider '" \o provider_name \o "' not available")]

update_groq_api_key(api_key) == Some(api_key)

-----------------------------------------------------------------------------
(* /api/summarize: generate_summaries *)

\* Mutant: the error is copied when the call succeeded and dropped otherwise.
loop_outcome_error_inverted(model, result) ==
    [model |-> model, summary |-> result.summary,
     response_time |-> result.response_time,
     token_count |-> IF result.token_count = NotAnInt THEN None
                     ELSE result.token_count,
     success |-> result.success /\ result.token_count # NotAnInt,
     error |-> IF result.success THEN result.error ELSE None]

\* SummaryResponse(...) raises when token_count is no Optional[int].
SummaryResponse_invalid(result) == result.token_count = NotAnInt

\* The record appended for one label: lines 225-234, or 237-245 when the
\* construction of the SummaryResponse raised.
loop_outcome(model, result) ==
    IF SummaryResponse_invalid(result)
    THEN [model |-> model, summary |-> "", response_time |-> 0,
          token_count |-> None, success |-> FALSE,
          error |-> Some("validation error for SummaryResponse")]
    ELSE [model |-> model, summary |-> result.summary,
          response_time |-> result.response_time,
          token_count |-> result.token_count, success |-> result.success,
          error |-> IF ~result.success THEN result.error ELSE None]

append_result(rs, outcome) == Append(rs, outcome)

\* Mutant: the first failed outcome ends the loop.
loop_next_abort(done, total, outcome) ==
    IF done = total \/ ~outcome.success THEN "finish" ELSE "resolve"

\* Mutant: after a failed outcome the loop waits and takes no further label.
loop_next_blocks_on_failure(done, total, outcome) ==
    IF done = total THEN "finish"
    ELSE IF ~outcome.success THEN "blocked" ELSE "resolve"

\* The loop goes on to the next model whatever the outcome was.
loop_next(done, total, outcome) ==
    IF done = total THEN "finish" ELSE "resolve"

successful_results(rs) == SelectSeq(rs, LAMBDA r : r.success)

RECURSIVE sum_response_time(_)
sum_response_time(rs) ==
    IF rs = <<>> THEN 0
    ELSE Head(rs).response_time + sum_response_time(Tail(rs))

RECURSIVE sum_token_count_stops_at_none(_)
\* Mutant: the sum ends at the first record without a token count.
sum_token_count_stops_at_none(rs) ==
    IF rs = <<>> \/ Head(rs).token_count = None THEN 0
    ELSE Head(rs).token_count[1] + sum_token_count_stops_at_none(Tail(rs))

RECURSIVE sum_token_count(_)
\* sum(r['token_count'] or 0 ...)
sum_token_count(rs) ==
    IF rs = <<>> THEN 0
    ELSE (IF Head(rs).token_count = None THEN 0 ELSE Head(rs).token_count[1])
         + sum_token_count(Tail(rs))

\* An exact quotient.
Rat(n, d) == [num |-> n, den |-> d]
RatEq(a, b) == a.num * b.den = b.num * a.den

\* Mutant: every record counts as successful.
stats_counts_all(rs) ==
    LET ok == successful_results(rs)
    IN [total |-> Len(rs),
        successful |-> Len(rs),
        failed |-> Len(rs) - Len(ok),
        avg_response_time |->
            IF ok # <<>> THEN Rat(sum_response_time(ok), Len(ok)) ELSE Rat(0, 1),
        total_tokens |-> sum_token_count(ok)]

\* Mutant: the mean is taken over all records, failed ones included.
stats_mean_over_all(rs) ==
    LET ok == successful_results(rs)
    IN [total |-> Len(rs),
        successful |-> Len(ok),
        failed |-> Len(rs) - Len(ok),
        avg_response_time |->
            IF rs # <<>> THEN Rat(sum_response_time(rs), Len(rs)) ELSE Rat(0, 1),
        total_tokens |-> sum_token_count(ok)]

stats(rs) ==
    LET ok == successful_results(rs)
    IN [total |-> Len(rs),
        successful |-> Len(ok),
        failed |-> Len(rs) - Len(ok),
        avg_response_time |->
            IF ok # <<>> THEN Rat(sum_response_time(ok), Len(ok)) ELSE Rat(0, 1),
        total_tokens |-> sum_token_count(ok)]

summarize_error(message) ==
    [endpoint |-> "summarize", success |-> FALSE, error |-> Some(message),
     results |-> <<>>, stats |-> None]

summarize_return(rs) ==
    [endpoint |-> "summarize", success |-> Len(successful_results(rs)) > 0,
     error |-> None, results |-> rs, stats |-> Some(stats(rs))]

NoEnabledError == "No API key configured. Please set up your Groq API key first."
NoTextError == "No text provided for summarization."
NoModelsError == "No models selected for comparison."

\* No function is called on its own.
NoCall == [op |-> "none"]

\* Nothing has happened yet for the label being processed.
EmptyCur ==
    [label |-> "", mgr_key |-> None, handle |-> None, probed |-> None,
     avail |-> None, sent |-> FALSE, sent_key |-> None, reply |-> None]

LabelLists(n) == UNION {[1..k -> RequestLabels] : k \in 0..n}

\* Every label list up to MaxLabels with a text to summarize, and the blank
\* texts with the label lists of at most one label.
Requests ==
    {[text |-> "some text", models |-> m] : m \in LabelLists(MaxLabels)}
    \cup {[text |-> t, models |-> m] :
            t \in RequestTexts \ {"some text"}, m \in LabelLists(1)}

-----------------------------------------------------------------------------
(* State machine *)

\* The module-level llm_manager is built from the environment's credential.
\* (modern_app.py reads os.getenv without importing os; the model takes the
\* module as loaded, with os bound, since no handler exists otherwise.)
Init ==
    /\ env_api_key \in EnvValues
    /\ groq_importable \in BOOLEAN
    /\ groq_api_key = env_api_key
    /\ ollama \in OllamaStates
    /\ pc = "idle"
    /\ request = [text |-> "", models |-> <<>>]
    /\ results = <<>>
    /\ provider = None
    /\ cur = EmptyCur
    /\ log = <<>>
    /\ guard_probes = 0
    /\ response = None
    /\ call = NoCall

\* The local service starts, stops, fails, or installs or removes a model.
OllamaChange ==
    /\ ollama' \in OllamaStates \ {ollama}
    /\ UNCHANGED <<call, env_api_key, groq_importable, groq_api_key, pc, request,
                   results, provider, cur, log, guard_probes, response>>

\* POST /api/configure-key. With 'use_env_key' and no environment credential
\* the handler returns before any update. Its own response is not kept.
\* The handlers are coroutines without await, so the server runs them one at
\* a time; the action is nevertheless enabled at every step of a dispatch,
\* which also covers a manager shared between threads.
configure_api_key(api_key) ==
    /\ groq_api_key' =
          IF api_key = "use_env_key"
          THEN (IF Truthy(env_api_key) THEN update_groq_api_key(env_api_key[1])
                ELSE groq_api_key)
          ELSE update_groq_api_key(api_key)
    /\ UNCHANGED <<call, env_api_key, groq_importable, ollama, pc, request, results,
                   provider, cur, log, guard_probes, response>>

NoRequest == [text |-> "", models |-> <<>>]

\* GET /api/models. Its response replaces the one kept of the handler that
\* ran before, whose request and locals are gone.
get_available_models ==
    /\ pc = "idle"
    /\ response' = Some([endpoint |-> "models",
                         available |-> get_available_providers,
                         enabled |-> get_enabled_providers(groq_api_key, ollama),
                         probed |-> ollama, api_key |-> groq_api_key])
    /\ request' = NoRequest
    /\ results' = <<>>
    /\ log' = <<>>
    /\ guard_probes' = 0
    /\ UNCHANGED <<call, env_api_key, groq_importable, groq_api_key, ollama, pc,
                   provider, cur>>

\* generate_summaries, lines 196-219: the three checks before the loop.
summarize_begin(req) ==
    /\ pc = "idle"
    /\ request' = req
    /\ guard_probes' = 1
    /\ results' = <<>>
    /\ log' = <<>>
    /\ cur' = EmptyCur
    /\ provider' = None
    /\ IF get_enabled_providers(groq_api_key, ollama) = <<>>
       THEN response' = Some(summarize_error(NoEnabledError)) /\ pc' = "idle"
       ELSE IF strip(req.text) = ""
       THEN response' = Some(summarize_error(NoTextError)) /\ pc' = "idle"
       ELSE IF req.models = <<>>
       THEN response' = Some(summarize_error(NoModelsError)) /\ pc' = "idle"
       ELSE response' = None /\ pc' = "resolve"
    /\ UNCHANGED <<call, env_api_key, groq_importable, groq_api_key, ollama>>

\* Mutant: the handle of the label just processed is kept.
finish_label_keeps_handle(result, happened) ==
    LET model == request.models[Len(results) + 1]
        outcome == loop_outcome(model, result)
    IN /\ results' = append_result(results, outcome)
       /\ log' = Append(log, happened)
       /\ cur' = EmptyCur
       /\ provider' = IF happened.handle = None THEN provider
                      ELSE happened.handle
       /\ pc' = loop_next(Len(results) + 1, Len(request.models), outcome)

\* One pass of the loop is over: its record joins results.
finish_label(result, happened) ==
    LET model == request.models[Len(results) + 1]
        outcome == loop_outcome(model, result)
    IN /\ results' = append_result(results, outcome)
       /\ log' = Append(log, happened)
       /\ cur' = EmptyCur
       /\ provider' = None
       /\ pc' = loop_next(Len(results) + 1, Len(request.models), outcome)

\* DualLLMManager.generate_summary, lines 335-346: resolve the label.
summarize_resolve ==
    /\ pc = "resolve"
    /\ LET model == request.models[Len(results) + 1]
           p == get_provider_instance(model, groq_api_key, env_api_key,
                                      groq_importable)
           \* mgr_key: the credential GroqProvider(...) was passed
           c == [cur EXCEPT !.label = model, !.handle = p,
                            !.mgr_key = IF has_key(groq_models, model)
                                        THEN groq_api_key ELSE None]
       IN IF p = None
          THEN finish_label(not_found_result(model), c)
          ELSE /\ provider' = p
               /\ cur' = c
               /\ pc' = "check"
               /\ UNCHANGED <<results, log>>
    /\ UNCHANGED <<call, env_api_key, groq_importable, groq_api_key, ollama,
                   request, guard_probes, response>>

\* Mutant: the request goes out whatever the availability check returned.
summarize_check_always_sends ==
    /\ pc = "check"
    /\ LET p == provider[1]
       IN cur' = IF p.kind = "groq"
                 THEN [cur EXCEPT !.avail = Some(Groq_is_available(p))]
                 ELSE [cur EXCEPT !.probed = Some(ollama),
                                  !.avail = Some(Ollama_is_available(p, ollama))]
    /\ pc' = "send"
    /\ UNCHANGED <<call, env_api_key, groq_importable, groq_api_key, ollama,
                   request, guard_probes, response, results, log, provider>>

\* The provider's generate_summary up to "if not self.is_available()".
summarize_check ==
    /\ pc = "check"
    /\ LET p == provider[1]
       IN IF p.kind = "groq"
          THEN LET c == [cur EXCEPT !.avail = Some(Groq_is_available(p))]
               IN IF Groq_is_available(p)
                  THEN /\ cur' = c /\ pc' = "send"
                       /\ UNCHANGED <<results, log, provider>>
                  ELSE finish_label(Groq_unavailable_result(p), c)
          ELSE LET c == [cur EXCEPT !.probed = Some(ollama),
                                    !.avail = Some(Ollama_is_available(p, ollama))]
               IN IF Ollama_is_available(p, ollama)
                  THEN /\ cur' = c /\ pc' = "send"
                       /\ UNCHANGED <<results, log, provider>>
                  ELSE finish_label(Ollama_unavailable_result(p), c)
    /\ UNCHANGED <<call, env_api_key, groq_importable, groq_api_key, ollama,
                   request, guard_probes, response>>

\* The generation request leaves: chat.completions.create through the client
\* built at construction, or POST /api/generate.
summarize_send ==
    /\ pc = "send"
    /\ cur' = [cur EXCEPT !.sent = TRUE,
                          !.sent_key = IF provider[1].kind = "groq"
                                       THEN provider[1].api_key ELSE None]
    /\ pc' = "await"
    /\ UNCHANGED <<call, env_api_key, groq_importable, groq_api_key, ollama,
                   request, results, provider, log, guard_probes, response>>

\* The backend answers, fails or times out, and the provider returns.
summarize_receive(reply) ==
    /\ pc = "await"
    /\ LET p == provider[1]
           c == [cur EXCEPT !.reply = Some(reply)]
       IN IF p.kind = "groq"
          THEN /\ reply \in GroqReplies
               /\ finish_label(Groq_request_result(p, reply), c)
          ELSE /\ reply \in OllamaReplies
               /\ finish_label(Ollama_request_result(p, reply), c)
    /\ UNCHANGED <<call, env_api_key, groq_importable, groq_api_key, ollama,
                   request, guard_probes, response>>

\* Lines 247-260: the statistics and the return.
summarize_finish ==
    /\ pc = "finish"
    /\ response' = Some(summarize_return(results))
    /\ pc' = "idle"
    /\ UNCHANGED <<call, env_api_key, groq_importable, groq_api_key, ollama,
                   request, results, provider, cur, log, guard_probes>>

Next ==
    \/ OllamaChange
    \/ \E k \in ConfigureInputs : configure_api_key(k)
    \/ get_available_models
    \/ \E req \in Requests : summarize_begin(req)
    \/ summarize_resolve
    \/ summarize_check
    \/ summarize_send
    \/ \E reply \in GroqReplies \cup OllamaReplies : summarize_receive(reply)
    \/ summarize_finish

Spec == Init /\ [][Next]_vars

-----------------------------------------------------------------------------
(* Properties *)

IsCloudLabel(l) == has_key(groq_models, l)
IsLocalLabel(l) == ~has_key(groq_models, l) /\ has_key(ollama_models, l)

\* The summarize handler has returned and its response is the one kept.
Returned == pc = "idle" /\ response # None /\ response[1].endpoint = "summarize"
ValidInput == strip(request.text) # "" /\ request.models # <<>>
Aborted == Returned /\ response[1].stats = None

\* C1: for every non-empty label list and non-blank text the dispatch returns
\* exactly one outcome per requested label, the i-th for the i-th label,
\* whatever the credential state and whichever providers succeed or fail.
C1_OneOutcomePerLabelInOrder ==
    (Returned /\ ValidInput) =>
        /\ Len(response[1].results) = Len(request.models)
        /\ \A i \in 1..Len(request.models) :
              response[1].results[i].model = request.models[i]

\* C2: a Cloud label resolved while the manager's credential is unset ends in
\* a failed outcome with the credential-missing error, and no request goes to
\* the Cloud backend.
C2_UnsetCredentialMeansCredentialMissing ==
    \A i \in 1..Len(log) :
        (IsCloudLabel(log[i].label) /\ ~Truthy(log[i].mgr_key)) =>
            /\ ~log[i].sent
            /\ ~results[i].success
            /\ results[i].error = Some("API key not provided")

\* What the provider call of a processed label returns, read off what happened
\* to that label alone.
own_result(e) ==
    IF e.handle = None THEN not_found_result(e.label)
    ELSE IF e.handle[1].kind = "groq"
    THEN (IF e.reply = None THEN Groq_unavailable_result(e.handle[1])
          ELSE Groq_request_result(e.handle[1], e.reply[1]))
    ELSE (IF e.reply = None THEN Ollama_unavailable_result(e.handle[1])
          ELSE Ollama_request_result(e.handle[1], e.reply[1]))

\* C3: a handle keeps the credential it captured at resolution. While its call
\* is in flight the handle is the one resolved, whatever updates arrive; the
\* request carries the captured credential; and two calls of one dispatch
\* through handles with the same captured configuration fare alike (both send
\* or neither, and the same backend reply gives the same outcome), whatever
\* the manager's credential became in between.
C3_HandleKeepsCapturedCredential ==
    /\ provider # None => provider = cur.handle
    /\ (cur.sent /\ provider[1].kind = "groq") =>
            cur.sent_key = cur.handle[1].api_key
    /\ \A i \in 1..Len(log) :
          (log[i].sent /\ log[i].handle[1].kind = "groq") =>
              log[i].sent_key = log[i].handle[1].api_key
    /\ \A i, j \in 1..Len(log) :
          (log[i].handle # None /\ log[i].handle = log[j].handle
           /\ log[i].handle[1].kind = "groq") =>
              /\ log[i].sent = log[j].sent
              /\ log[i].reply = log[j].reply =>
                    results[i].success = results[j].success
                    /\ results[i].error = results[j].error

\* An update has replaced the credential k1 that the call in flight captured.
C3_Witness ==
    /\ pc = "await"
    /\ provider[1].kind = "groq"
    /\ cur.mgr_key = Some("k1")
    /\ cur.sent_key = Some("k1")
    /\ groq_api_key = Some("")

\* C4: every label processed so far has exactly its own outcome, the one its
\* own resolution and backend behaviour give, whatever happened to the labels
\* before it; and when the loop is over no label has been skipped.
C4_OutcomeDependsOnOwnCallOnly ==
    /\ Len(results) = Len(log)
    /\ \A i \in 1..Len(log) :
          /\ log[i].label = request.models[i]
          /\ results[i] = loop_outcome(log[i].label, own_result(log[i]))
    /\ pc = "finish" => Len(results) = Len(request.models)

\* A failed first label (of each kind of failure) is followed by a success.
C4_Witness ==
    /\ pc = "finish"
    /\ Len(results) = 2
    /\ ~results[1].success
    /\ results[2].success

\* C5: a dispatch aborts as a whole only for blank text or an empty label
\* list.
C5_OnlyInputValidationAborts ==
    Aborted => (strip(request.text) = "" \/ request.models = <<>>)

\* C6: with an empty label list or blank text the dispatch fails with a single
\* error and no outcomes, before any provider is resolved and before any
\* network call.
C6_FailFastBeforeAnyNetworkCall ==
    (Returned /\ ~ValidInput) =>
        /\ Aborted
        /\ response[1].error # None
        /\ response[1].results = <<>>
        /\ log = <<>>
        /\ guard_probes = 0

\* C7: a label of neither catalog resolves to None, and the dispatch gives it
\* a failed outcome with the unknown-provider error without any probe or
\* generation request.
C7_UnknownLabelFailsWithoutBackend ==
    \A i \in 1..Len(log) :
        (~IsCloudLabel(log[i].label) /\ ~IsLocalLabel(log[i].label)) =>
            /\ log[i].handle = None
            /\ log[i].probed = None
            /\ ~log[i].sent
            /\ results[i].model = log[i].label
            /\ ~results[i].success
            /\ results[i].error =
                  Some("Provider '" \o log[i].label \o "' not available")

C7_Witness ==
    /\ Returned
    /\ Len(log) = 2
    /\ log[2].label = UnknownLabel
    /\ response[1].results[2].error # None

\* The model ids a probe answered by svc reports as installed.
installed_seen(svc) == IF svc.status = "ok" THEN svc.models ELSE {}

\* C8: a Local label whose model id is not in the probed installed-model list
\* is not among the enabled labels, and a summary requested through it fails
\* with the model-not-available error without a generation request.
C8_UninstalledLocalModelIsUnavailable ==
    /\ (response # None /\ response[1].endpoint = "models") =>
          \A i \in 1..Len(ollama_models) :
              ollama_models[i][2] \notin installed_seen(response[1].probed) =>
                  \A k \in 1..Len(response[1].enabled) :
                      response[1].enabled[k] # ollama_models[i][1]
    /\ \A i \in 1..Len(log) :
          (IsLocalLabel(log[i].label) /\ log[i].probed # None
           /\ log[i].handle[1].model_name \notin installed_seen(log[i].probed[1])) =>
              /\ ~log[i].sent
              /\ ~results[i].success
              /\ results[i].error =
                    Some("Model " \o log[i].handle[1].model_name \o " not available")

\* The service is up, the model is not installed, and the forced call failed.
C8_Witness ==
    /\ Len(log) >= 1
    /\ IsLocalLabel(log[1].label)
    /\ log[1].probed = Some([status |-> "ok", models |-> {}])
    /\ ~results[1].success

\* The indices of the successful outcomes of a result list.
SucceededAt(rs) == {i \in 1..Len(rs) : rs[i].success}

RECURSIVE ElapsedOfSucceeded(_, _)
\* The elapsed time of the successful outcomes among the first n.
ElapsedOfSucceeded(rs, n) ==
    IF n = 0 THEN 0
    ELSE ElapsedOfSucceeded(rs, n - 1)
         + (IF rs[n].success THEN rs[n].response_time ELSE 0)

\* C9: in every aggregate result total is the number of outcomes, successful
\* the number of outcomes that succeeded, and failed = total - successful.
C9_CountsAddUp ==
    (Returned /\ ~Aborted) =>
        LET st == response[1].stats[1]
            rs == response[1].results
        IN /\ st.total = Len(rs)
           /\ st.successful = Cardinality(SucceededAt(rs))
           /\ st.failed = st.total - st.successful

C9_Witness ==
    /\ Returned
    /\ ~Aborted
    /\ response[1].stats[1].successful = 1
    /\ response[1].stats[1].failed = 1

\* C10: the average elapsed time is the sum of the elapsed times of the
\* successful outcomes divided by their number, and exactly 0 when none
\* succeeded.
C10_AverageOverSuccessfulOnly ==
    (Returned /\ ~Aborted) =>
        LET st == response[1].stats[1]
            rs == response[1].results
            n == Cardinality(SucceededAt(rs))
        IN IF n = 0
           THEN st.avg_response_time = Rat(0, 1)
           ELSE RatEq(st.avg_response_time,
                      Rat(ElapsedOfSucceeded(rs, Len(rs)), n))

\* A failed outcome that took time stands next to a successful one.
C10_Witness ==
    /\ Returned
    /\ ~Aborted
    /\ Len(response[1].results) = 2
    /\ ~response[1].results[1].success
    /\ response[1].results[1].response_time > 0
    /\ response[1].results[2].success

RECURSIVE TokensOfSucceeded(_, _)
\* The token counts of the successful outcomes among the first n, an absent
\* count adding nothing.
TokensOfSucceeded(rs, n) ==
    IF n = 0 THEN 0
    ELSE TokensOfSucceeded(rs, n - 1)
         + (IF rs[n].success /\ rs[n].token_count # None
            THEN rs[n].token_count[1] ELSE 0)

\* C11: the aggregate's total_tokens is the sum of the token counts of the
\* successful outcomes only; a successful outcome without a count adds 0 and
\* a failed outcome adds nothing.
C11_TotalTokensOverSuccessfulOnly ==
    (Returned /\ ~Aborted) =>
        LET rs == response[1].results
        IN response[1].stats[1].total_tokens = TokensOfSucceeded(rs, Len(rs))

\* A successful outcome without a count comes before one with a count.
C11_Witness ==
    /\ Returned
    /\ ~Aborted
    /\ Len(response[1].results) = 2
    /\ response[1].results[1].success
    /\ response[1].results[1].token_count = None
    /\ response[1].results[2].success
    /\ response[1].results[2].token_count = Some(3)
    /\ response[1].stats[1].total_tokens = 3

\* C12: every outcome, whether returned by a provider, by the manager for a
\* label of neither catalog, or written by the dispatch loop, carries an error
\* exactly when it did not succeed.
C12_ErrorPresentIffFailed ==
    /\ \A i \in 1..Len(log) :
          LET r == own_result(log[i])
          IN (r.error # None) <=> ~r.success
    /\ \A i \in 1..Len(results) :
          (results[i].error # None) <=> ~results[i].success

\* A Cloud call that timed out stands next to a Local call that succeeded.
C12_Witness ==
    /\ Returned
    /\ Len(response[1].results) = 2
    /\ IsCloudLabel(log[1].label)
    /\ log[1].reply # None
    /\ log[1].reply[1].kind = "timeout"
    /\ response[1].results[1].error # None
    /\ IsLocalLabel(log[2].label)
    /\ response[1].results[2].success
    /\ response[1].results[2].error = None

\* C13: an outcome that did not succeed has no token count, whichever provider
\* produced it, for a label of neither catalog, and when the dispatch loop
\* wrote it after an exception.
C13_FailedOutcomeHasNoTokenCount ==
    /\ \A i \in 1..Len(log) :
          LET r == own_result(log[i])
          IN ~r.success => r.token_count = None
    /\ \A i \in 1..Len(results) :
          ~results[i].success => results[i].token_count = None

\* An unavailable Cloud handle, and a Local answer whose count made the
\* construction of the SummaryResponse raise.
C13_Witness ==
    /\ Returned
    /\ Len(response[1].results) = 2
    /\ IsCloudLabel(log[1].label)
    /\ log[1].avail = Some(FALSE)
    /\ ~response[1].results[1].success
    /\ log[2].reply # None
    /\ log[2].reply[1].tokens = NotAnInt
    /\ ~response[1].results[2].success

-----------------------------------------------------------------------------
(* Functions called on their own *)

dispatch_vars == <<env_api_key, groq_importable, groq_api_key, ollama, pc,
                   request, results, provider, cur, log, guard_probes,
                   response>>

\* The longest text, and the largest floor and ceiling, a call is made with.
MaxTextLen == 4
MaxWords == 3

\* A text is a sequence of characters: a letter, a blank or a line break.
Whitespace == {" ", "\n"}
Chars == {"w"} \cup Whitespace
Texts == UNION {[1..n -> Chars] : n \in 0..MaxTextLen}

RECURSIVE lstrip(_)
lstrip(text) ==
    IF text # <<>> /\ Head(text) \in Whitespace THEN lstrip(Tail(text))
    ELSE text

RECURSIVE rstrip(_)
rstrip(text) ==
    IF text # <<>> /\ text[Len(text)] \in Whitespace
    THEN rstrip(SubSeq(text, 1, Len(text) - 1))
    ELSE text

\* str.strip() on a text.
text_strip(text) == rstrip(lstrip(text))

RECURSIVE first_word(_)
\* The characters of a text up to its first whitespace.
first_word(text) ==
    IF text = <<>> \/ Head(text) \in Whitespace THEN <<>>
    ELSE <<Head(text)>> \o first_word(Tail(text))

RECURSIVE text_split(_)
\* str.split(): the runs of characters between whitespace.
text_split(text) ==
    LET rest == lstrip(text)
        w == first_word(rest)
    IN IF rest = <<>> THEN <<>>
       ELSE <<w>> \o text_split(SubSeq(rest, Len(w) + 1, Len(rest)))

EmptyTextError == "Text content is empty"

too_short_error(min_words, word_count) ==
    "Text too short. Minimum " \o ToString(min_words)
    \o " words required, got " \o ToString(word_count)

too_long_error(max_words, word_count) ==
    "Text too long. Maximum " \o ToString(max_words)
    \o " words allowed, got " \o ToString(word_count)

\* Mutant: a text of exactly min_words words is rejected.
validate_text_content_strict_floor(text, min_words, max_words) ==
    IF text = <<>> \/ text_strip(text) = <<>>
    THEN [valid |-> FALSE, error |-> Some(EmptyTextError), word_count |-> 0]
    ELSE LET word_count == Len(text_split(text))
         IN IF word_count <= min_words
            THEN [valid |-> FALSE,
                  error |-> Some(too_short_error(min_words, word_count)),
                  word_count |-> word_count]
            ELSE IF word_count > max_words
            THEN [valid |-> FALSE,
                  error |-> Some(too_long_error(max_words, word_count)),
                  word_count |-> word_count]
            ELSE [valid |-> TRUE, error |-> None, word_count |-> word_count]

\* DocumentProcessor.validate_text_content
validate_text_content(text, min_words, max_words) ==
    IF text = <<>> \/ text_strip(text) = <<>>
    THEN [valid |-> FALSE, error |-> Some(EmptyTextError), word_count |-> 0]
    ELSE LET word_count == Len(text_split(text))
         IN IF word_count < min_words
            THEN [valid |-> FALSE,
                  error |-> Some(too_short_error(min_words, word_count)),
                  word_count |-> word_count]
            ELSE IF word_count > max_words
            THEN [valid |-> FALSE,
                  error |-> Some(too_long_error(max_words, word_count)),
                  word_count |-> word_count]
            ELSE [valid |-> TRUE, error |-> None, word_count |-> word_count]

\* The calls of validate_text_content: every text with every floor and ceiling.
ValidateCalls ==
    {[op |-> "validate_text_content", text |-> t, min_words |-> lo,
      max_words |-> hi, result |-> None] :
        t \in Texts, lo \in 0..MaxWords, hi \in 0..MaxWords}

\* Names a /api/tags body may list: a catalog id, a longer tag of the same
\* model, and another catalog id.
ProbeModelNames == {"llama3.1:8b", "llama3.1:8b-instruct-q4_0", "mistral:7b"}

\* What GET /api/tags may answer: status 200 with a list of names, another
\* status with or without such a body, status 200 with a body that is no
\* JSON or whose entries have no name, or no answer at all.
ProbeAnswers ==
    {[status |-> "ok", models |-> m] : m \in SUBSET ProbeModelNames}
    \cup {[status |-> "http_error", models |-> m] :
              m \in {{}, {"llama3.1:8b"}}}
    \cup {[status |-> "malformed", models |-> {}],
          [status |-> "down", models |-> {}]}

LocalHandles ==
    {OllamaProvider_init(id, "http://localhost:11434") :
        id \in {"llama3.1:8b", "mistral:7b"}}

\* The calls of OllamaProvider.is_available.
IsAvailableCalls ==
    {[op |-> "OllamaProvider.is_available", p |-> p, svc |-> svc,
      result |-> None] : p \in LocalHandles, svc \in ProbeAnswers}

\* GroqProvider.generate_summary, given what the backend does if asked.
Groq_generate_summary(p, reply) ==
    IF Groq_is_available(p) THEN Groq_request_result(p, reply)
    ELSE Groq_unavailable_result(p)

\* OllamaProvider.generate_summary, given the probe's answer and what the
\* backend does if asked.
Ollama_generate_summary(p, svc, reply) ==
    IF Ollama_is_available(p, svc) THEN Ollama_request_result(p, reply)
    ELSE Ollama_unavailable_result(p)

\* The Cloud faults with the texts their exceptions may carry. The text is
\* the client library's: a timeout while connecting may surface as its
\* connection exception.
GroqFaults ==
    GroqReplies
    \cup {[kind |-> "timeout", elapsed |-> 2, tokens |-> None,
           message |-> "Connection error."]}

CloudHandles ==
    {GroqProvider_init("llama-3.1-70b-versatile", key, None, TRUE) :
        key \in {None, Some("k1")}}

\* Two calls of generate_summary through one handle, the backend answering
\* each in its own way.
GenerateCalls ==
    {[op |-> "generate_summary", p |-> p,
      svc |-> [status |-> "down", models |-> {}], replies |-> <<a, b>>,
      result |-> None] : p \in CloudHandles, a \in GroqFaults, b \in GroqFaults}
    \cup
    {[op |-> "generate_summary", p |-> p, svc |-> svc, replies |-> <<a, b>>,
      result |-> None] :
        p \in LocalHandles,
        svc \in {[status |-> "ok", models |-> {"llama3.1:8b", "mistral:7b"}],
                 [status |-> "down", models |-> {}]},
        a \in OllamaReplies, b \in OllamaReplies}

\* DualLLMManager.generate_summary: resolve the label, then the provider's
\* generate_summary.
DualLLMManager_generate_summary(provider_name, api_key, env, importable, svc, reply) ==
    LET p == get_provider_instance(provider_name, api_key, env, importable)
    IN IF p = None THEN not_found_result(provider_name)
       ELSE IF p[1].kind = "groq" THEN Groq_generate_summary(p[1], reply)
       ELSE Ollama_generate_summary(p[1], svc, reply)

\* results[key] = value on a dict kept as its items in insertion order: a key
\* the dict has keeps its place and takes the new value.
dict_set(d, key, value) ==
    IF \E i \in 1..Len(d) : d[i][1] = key
    THEN [i \in 1..Len(d) |-> IF d[i][1] = key THEN <<key, value>> ELSE d[i]]
    ELSE Append(d, <<key, value>>)

\* What a backend does when asked: answer, or run into its timeout.
Behaviours == {"ok", "timeout"}
backend_reply(b) ==
    IF b = "ok" THEN [kind |-> "ok", elapsed |-> 1, tokens |-> None]
    ELSE [kind |-> "timeout", elapsed |-> 2, tokens |-> None,
          message |-> "Request timed out."]

RECURSIVE generate_multiple_summaries(_, _, _, _, _, _)
\* The loop of generate_multiple_summaries over the first n names.
generate_multiple_summaries(provider_names, n, api_key, env, svc, behaviours) ==
    IF n = 0 THEN <<>>
    ELSE dict_set(generate_multiple_summaries(provider_names, n - 1, api_key,
                                              env, svc, behaviours),
                  provider_names[n],
                  DualLLMManager_generate_summary(
                      provider_names[n], api_key, env, TRUE, svc,
                      backend_reply(behaviours[n])))

\* The calls of generate_multiple_summaries: every label list up to MaxLabels,
\* with and without a credential, the local service up or down.
MultipleCalls ==
    UNION {{[op |-> "generate_multiple_summaries", provider_names |-> names,
             api_key |-> key, svc |-> svc, behaviours |-> bs,
             result |-> None] :
               key \in {None, Some("k1")},
               svc \in {[status |-> "ok", models |-> {"llama3.1:8b"}],
                        [status |-> "down", models |-> {}]},
               bs \in [1..Len(names) -> Behaviours]} :
           names \in LabelLists(MaxLabels)}

\* What GET /api/tags may answer to get_ollama_status: status 200 with a
\* list of names (a name may repeat), status 500, status 200 with a body
\* that cannot be read, or no answer.
StatusAnswers ==
    {[status |-> "ok", models |-> m] :
        m \in UNION {[1..n -> ProbeModelNames] : n \in 0..2}}
    \cup {[status |-> "http_error", models |-> <<>>],
          [status |-> "malformed", models |-> <<>>],
          [status |-> "down", models |-> <<>>]}

\* Mutant: the body is read whatever the status code.
get_ollama_status_any_status(svc) ==
    IF svc.status \in {"ok", "http_error"}
    THEN [available |-> TRUE, model_count |-> Len(svc.models),
          models |-> svc.models]
    ELSE [available |-> FALSE, error |-> Some("Connection refused")]

\* DualLLMManager.get_ollama_status, given the answer to its probe.
get_ollama_status(svc) ==
    IF svc.status = "ok"
    THEN [available |-> TRUE, model_count |-> Len(svc.models),
          models |-> svc.models]
    ELSE IF svc.status = "http_error"
    THEN [available |-> FALSE, error |-> Some("HTTP 500")]
    ELSE IF svc.status = "malformed"
    THEN [available |-> FALSE, error |-> Some("Expecting value")]
    ELSE [available |-> FALSE, error |-> Some("Connection refused")]

StatusCalls ==
    {[op |-> "get_ollama_status", svc |-> svc, result |-> None] :
        svc \in StatusAnswers}

CallInputs ==
    ValidateCalls \cup IsAvailableCalls \cup GenerateCalls \cup MultipleCalls
    \cup StatusCalls

\* The process is idle and one function is about to be called.
InitCalls ==
    /\ env_api_key = None
    /\ groq_importable = TRUE
    /\ groq_api_key = env_api_key
    /\ ollama = [status |-> "down", models |-> {}]
    /\ pc = "idle"
    /\ request = NoRequest
    /\ results = <<>>
    /\ provider = None
    /\ cur = EmptyCur
    /\ log = <<>>
    /\ guard_probes = 0
    /\ response = None
    /\ call \in CallInputs

call_validate_text_content ==
    /\ call.op = "validate_text_content"
    /\ call.result = None
    /\ call' = [call EXCEPT !.result =
                  Some(validate_text_content(call.text, call.min_words,
                                             call.max_words))]
    /\ UNCHANGED dispatch_vars

call_is_available ==
    /\ call.op = "OllamaProvider.is_available"
    /\ call.result = None
    /\ call' = [call EXCEPT !.result = Some(Ollama_is_available(call.p, call.svc))]
    /\ UNCHANGED dispatch_vars

call_generate_summary ==
    /\ call.op = "generate_summary"
    /\ call.result = None
    /\ LET once(reply) ==
               IF call.p.kind = "groq"
               THEN Groq_generate_summary(call.p, reply)
               ELSE Ollama_generate_summary(call.p, call.svc, reply)
       IN call' = [call EXCEPT !.result =
                     Some(<<once(call.replies[1]), once(call.replies[2])>>)]
    /\ UNCHANGED dispatch_vars

call_generate_multiple_summaries ==
    /\ call.op = "generate_multiple_summaries"
    /\ call.result = None
    /\ call' = [call EXCEPT !.result =
                  Some(generate_multiple_summaries(
                           call.provider_names, Len(call.provider_names),
                           call.api_key, None, call.svc, call.behaviours))]
    /\ UNCHANGED dispatch_vars

call_get_ollama_status ==
    /\ call.op = "get_ollama_status"
    /\ call.result = None
    /\ call' = [call EXCEPT !.result = Some(get_ollama_status(call.svc))]
    /\ UNCHANGED dispatch_vars

NextCalls ==
    \/ call_get_ollama_status
    \/ call_validate_text_content
    \/ call_is_available
    \/ call_generate_summary
    \/ call_generate_multiple_summaries

SpecCalls == InitCalls /\ [][NextCalls]_vars

\* The positions at which a word of the text begins.
WordStarts(text) ==
    {i \in 1..Len(text) :
        /\ text[i] \notin Whitespace
        /\ (i = 1 \/ text[i - 1] \in Whitespace)}

\* C14: the validator rejects a blank text as empty; otherwise a text of fewer
\* words than the floor as too short; otherwise one of more words than the
\* ceiling as too long; and otherwise accepts it and returns its word count.
\* A text of exactly floor or exactly ceiling words is therefore accepted.
C14_ValidatorClassifiesByWordCount ==
    (call.op = "validate_text_content" /\ call.result # None) =>
        LET r == call.result[1]
            n == Cardinality(WordStarts(call.text))
        IN IF \A i \in 1..Len(call.text) : call.text[i] \in Whitespace
           THEN ~r.valid /\ r.error = Some(EmptyTextError)
           ELSE IF n < call.min_words
           THEN ~r.valid
                /\ r.error = Some(too_short_error(call.min_words, n))
           ELSE IF n > call.max_words
           THEN ~r.valid
                /\ r.error = Some(too_long_error(call.max_words, n))
           ELSE r.valid /\ r.error = None /\ r.word_count = n

\* A text of two words is accepted with floor and ceiling both at two.
C14_Witness ==
    /\ call.op = "validate_text_content"
    /\ call.result # None
    /\ call.text = <<"w", " ", "\n", "w">>
    /\ call.min_words = 2
    /\ call.max_words = 2
    /\ call.result[1].valid
    /\ call.result[1].word_count = 2

\* C15: with the client library installed, a Cloud handle is available exactly
\* when it was constructed with a non-empty credential: the handle the manager
\* builds for a Cloud label reports itself available if and only if the
\* credential passed to its constructor is set.
C15_CloudAvailableIffConstructedWithCredential ==
    groq_importable =>
        /\ \A i \in 1..Len(log) :
              (IsCloudLabel(log[i].label) /\ log[i].avail # None) =>
                  log[i].avail = Some(Truthy(log[i].mgr_key))
        /\ (IsCloudLabel(cur.label) /\ cur.avail # None) =>
              cur.avail = Some(Truthy(cur.mgr_key))

\* C16: a Local handle reports itself available exactly when the probe was
\* answered with status 200 and the names it lists include the handle's own
\* model id, letter for letter; with no answer, another status or a body that
\* cannot be read the result is False, and the result is always a boolean.
C16_LocalAvailableIffProbeListsModel ==
    (call.op = "OllamaProvider.is_available" /\ call.result # None) =>
        /\ call.result[1] \in BOOLEAN
        /\ call.result[1] = (/\ call.svc.status = "ok"
                             /\ \E name \in call.svc.models :
                                   name = call.p.model_name)

\* The probe lists the handle's model among others.
C16_Witness ==
    /\ call.op = "OllamaProvider.is_available"
    /\ call.p.model_name = "llama3.1:8b"
    /\ call.svc = [status |-> "ok",
                   models |-> {"llama3.1:8b", "mistral:7b"}]
    /\ call.result = Some(TRUE)

\* GET /api/models has returned and its response is the one kept.
ModelsReturned == response # None /\ response[1].endpoint = "models"

\* C17: the enabled labels are the whole Cloud catalog if the manager's
\* credential is set and no Cloud label otherwise, followed by exactly the
\* Local labels whose model id the probe listed under status 200, none when
\* the probe failed; each label once, in catalog order.
C17_EnabledLabelsFollowCredentialAndProbe ==
    ModelsReturned =>
        LET enabled == response[1].enabled
            installed == installed_seen(response[1].probed)
            listed(l) == \E i \in 1..Len(enabled) : enabled[i] = l
            catalog == keys(groq_models) \o keys(ollama_models)
            at(l) == CHOOSE k \in 1..Len(catalog) : catalog[k] = l
        IN /\ \A i \in 1..Len(groq_models) :
                 listed(groq_models[i][1]) <=> Truthy(response[1].api_key)
           /\ \A i \in 1..Len(ollama_models) :
                 listed(ollama_models[i][1]) <=>
                     ollama_models[i][2] \in installed
           /\ \A i \in 1..Len(enabled) :
                 \E k \in 1..Len(catalog) : catalog[k] = enabled[i]
           /\ \A i, j \in 1..Len(enabled) :
                 i < j => at(enabled[i]) < at(enabled[j])

\* The credential was set to the empty value and one Local model is installed.
C17_Witness ==
    /\ ModelsReturned
    /\ response[1].api_key = Some("")
    /\ response[1].probed = [status |-> "ok", models |-> {"llama3.1:8b"}]
    /\ response[1].enabled = <<"Ollama - Llama 3.1 8B">>

\* C18: the list of all labels is always the Cloud catalog followed by the
\* Local catalog in definition order, whatever credential updates, dispatches
\* and changes of the local service came before.
C18_AllLabelsFixed ==
    ModelsReturned =>
        response[1].available =
            <<"Groq - Llama 3.1 70B", "Groq - Llama 3.1 8B",
              "Groq - Llama 3 70B", "Groq - Llama 3 8B",
              "Groq - Mixtral 8x7B", "Groq - Gemma 7B", "Groq - Gemma 2 9B",
              "Ollama - Llama 3.1 8B", "Ollama - Llama 3.1 70B",
              "Ollama - Llama 3 8B", "Ollama - Mistral 7B",
              "Ollama - Gemma 7B", "Ollama - Gemma 2 9B",
              "Ollama - Phi-3 Mini", "Ollama - CodeLlama 7B",
              "Ollama - Neural Chat 7B">>

\* All labels are listed while no credential is set and the local service
\* does not answer, and nothing is enabled.
C18_Witness ==
    /\ ModelsReturned
    /\ env_api_key # None
    /\ response[1].api_key = Some("")
    /\ response[1].probed.status = "down"
    /\ response[1].enabled = <<>>
    /\ Len(response[1].available) = 16

\* C19: a Cloud handle resolved after a credential update is bound to the
\* updated credential, to a set one exactly and to an unset one as unset; and
\* the enabled labels include the Cloud catalog exactly when the updated
\* credential is set.
C19_UpdateTakesEffectForLaterResolutions ==
    /\ \A i \in 1..Len(log) :
          (IsCloudLabel(log[i].label) /\ log[i].handle # None) =>
              IF Truthy(log[i].mgr_key)
              THEN log[i].handle[1].api_key = log[i].mgr_key
              ELSE ~Truthy(log[i].handle[1].api_key)
    /\ ModelsReturned =>
          ((\E i \in 1..Len(response[1].enabled) :
                IsCloudLabel(response[1].enabled[i]))
           <=> Truthy(response[1].api_key))

BackendFaults == {"timeout", "status", "transport"}

\* C20: generate_summary of either provider returns an outcome whatever the
\* backend does; a timeout, an error status and a transport failure each give
\* a failed outcome with an error; and two calls through one handle that met
\* faults of different kinds report different errors.
C20_FaultsFailDistinguishably ==
    (call.op = "generate_summary" /\ call.result # None) =>
        LET out == call.result[1]
            reached == IF call.p.kind = "groq" THEN Groq_is_available(call.p)
                       ELSE Ollama_is_available(call.p, call.svc)
            fault(k) == call.replies[k].kind
        IN reached =>
              /\ \A k \in 1..2 :
                    fault(k) \in BackendFaults =>
                        ~out[k].success /\ out[k].error # None
              /\ (/\ fault(1) \in BackendFaults
                  /\ fault(2) \in BackendFaults
                  /\ fault(1) # fault(2)) => out[1].error # out[2].error

\* C21: generate_multiple_summaries returns one outcome for each entry of the
\* label list, the i-th for the i-th entry, so as many outcomes as the list is
\* long, a label listed twice included.
C21_OneOutcomePerListEntry ==
    (call.op = "generate_multiple_summaries" /\ call.result # None) =>
        LET out == call.result[1]
        IN /\ Len(out) = Len(call.provider_names)
           /\ \A i \in 1..Len(out) : out[i][1] = call.provider_names[i]

\* C22: get_ollama_status always returns a result: under status 200 it is
\* available with the names the probe listed and a count equal to their
\* number; under another status, an unreadable body or no answer it is not
\* available and carries an error.
C22_StatusPassesProbeThrough ==
    (call.op = "get_ollama_status" /\ call.result # None) =>
        LET r == call.result[1]
        IN /\ r.available \in BOOLEAN
           /\ r.available <=> call.svc.status = "ok"
           /\ r.available =>
                 /\ r.models = call.svc.models
                 /\ r.model_count = Len(r.models)
           /\ ~r.available => r.error # None

\* The probe lists two names.
C22_Witness ==
    /\ call.op = "get_ollama_status"
    /\ call.svc = [status |-> "ok",
                   models |-> <<"llama3.1:8b", "mistral:7b">>]
    /\ call.result # None
    /\ call.result[1].available
    /\ call.result[1].model_count = 2

C24_RequestOnlyAfterAvailable ==
    /\ cur.sent => cur.avail = Some(TRUE)
    /\ \A i \in 1..Len(log) :
          /\ log[i].sent => log[i].avail = Some(TRUE)
          /\ log[i].avail = Some(FALSE) =>
                /\ ~log[i].sent
                /\ log[i].reply = None
                /\ ~results[i].success

\* The request of a Local handle is under way, the probe of the call listed
\* the model, and the service has gone down since.
C24_Witness ==
    /\ pc = "await"
    /\ provider[1].kind = "ollama"
    /\ cur.sent
    /\ cur.probed = Some([status |-> "ok", models |-> {"llama3.1:8b"}])
    /\ ollama.status = "down"

\* A dispatch that has returned holds no handle and no availability result,
\* its outcomes are those of its own label list, and its statistics are those
\* of its own outcomes.
NothingRetained ==
    /\ Returned => provider = None /\ cur = EmptyCur
    /\ (Returned /\ ~Aborted) =>
          LET rs == response[1].results
              st == response[1].stats[1]
              n == Cardinality(SucceededAt(rs))
          IN /\ rs = results
             /\ Len(rs) = Len(request.models)
             /\ \A i \in 1..Len(rs) :
                   /\ rs[i].model = request.models[i]
                   /\ rs[i] = loop_outcome(request.models[i],
                                           own_result(log[i]))
             /\ st.total = Len(rs)
             /\ st.successful = n
             /\ st.failed = Len(rs) - n
             /\ st.total_tokens = TokensOfSucceeded(rs, Len(rs))
             /\ IF n = 0 THEN st.avg_response_time = Rat(0, 1)
                ELSE RatEq(st.avg_response_time,
                           Rat(ElapsedOfSucceeded(rs, Len(rs)), n))

\* C25: a dispatch is stateless: no step of the handler changes the
\* manager's credential, and once it has returned it holds no handle and no
\* availability result, and its outcomes and statistics are those of its own
\* request and outcome sequence, whatever dispatches came before.
C25_DispatchIsStateless ==
    /\ []NothingRetained
    /\ [][pc' # pc => groq_api_key' = groq_api_key]_vars

\* A dispatch of two labels has returned, one outcome a success and one a
\* failure, and no handle is left.
C25_Witness ==
    /\ Returned
    /\ ~Aborted
    /\ Len(response[1].results) = 2
    /\ response[1].results[1].success
    /\ ~response[1].results[2].success
    /\ provider = None

-----------------------------------------------------------------------------
(* Termination *)

\* The handler is a sequential loop, so each of its steps is taken once it
\* can be; every backend request is made with a timeout (5 s for the probe,
\* 120 s for /api/generate, the client library's deadline for the Cloud), so
\* an outstanding request is answered or times out.
InitLive ==
    /\ Init
    /\ env_api_key = Some("kenv")
    /\ groq_importable

\* What matters to termination of a backend's request: it is answered, or it
\* runs into its timeout.
LiveReplies ==
    {r \in GroqReplies \cup OllamaReplies :
        r.kind = "timeout" \/ (r.kind = "ok" /\ r.tokens = None)}

\* The dispatch with everything that may happen around it.
NextLive ==
    \/ OllamaChange
    \/ \E k \in ConfigureInputs : configure_api_key(k)
    \/ \E req \in Requests : summarize_begin(req)
    \/ summarize_resolve
    \/ summarize_check
    \/ summarize_send
    \/ \E reply \in LiveReplies : summarize_receive(reply)
    \/ summarize_finish

SpecLive ==
    /\ InitLive
    /\ [][NextLive]_vars
    /\ WF_vars(summarize_resolve)
    /\ WF_vars(summarize_check)
    /\ WF_vars(summarize_send)
    /\ WF_vars(\E reply \in LiveReplies : summarize_receive(reply))
    /\ WF_vars(summarize_finish)

\* C26: a dispatch that has entered its loop returns its aggregate with one
\* outcome for every requested label, whatever its backends do: a request
\* that runs into its timeout gives a failed outcome and the loop goes on.
C26_DispatchReturns ==
    (pc # "idle") ~>
        (/\ Returned
         /\ ~Aborted
         /\ Len(response[1].results) = Len(request.models))

\* The first label timed out and the second was processed after it.
C26_Witness ==
    /\ Returned
    /\ Len(log) = 2
    /\ log[1].reply # None
    /\ log[1].reply[1].kind = "timeout"
    /\ Len(response[1].results) = 2

====
